---- MODULE Spec2Model ----
(***************************************************************************)
(* Model of the streamduck node client: the transport / correlation engine *)
(* of its clients.                                                         *)
(*                                                                         *)
(*   - the message-transport (WebSocket) client, src/unnamed/part_000      *)
(*   - the Unix-socket client with the combined request/event channel,     *)
(*     src/index.js (buildRequestProtocol, newUnixClient)                  *)
(*                                                                         *)
(* Node runs every callback to completion on one thread, so each handler   *)
(* (request call, timer, socket event, supervisor tick) is one action.     *)
(***************************************************************************)
EXTENDS Integers, Sequences, FiniteSets, TLC

\* ------------------------------------------------------------------ bounds

\* number of request() calls made over a run
MaxReq == 2
\* number of connection handles rec() creates over a run
MaxConns == 2
\* number of frames the daemon has in flight to the client at a time
MaxInFlight == 2
\* number of frames of the stream a single connection is fed (SpecFeed)
MaxFrames == 3
\* number of add_event_listener calls over a run
MaxListeners == 2
\* number of destroy() calls over a run
MaxDestroy == 1

\* ------------------------------------------------------------ value spaces

\* values randomstring.generate() may return; two calls may return the same
Ids == {"a", "b"}
\* response / event payloads (opaque to the engine); "a" is also an id
Payloads == {"a", "p"}
\* listener functions a caller may register; "bad" raises when invoked
ListenerFns == {"f", "bad"}

\* the frame terminator "\u0004"
EOT == "EOT"
\* a byte that never occurs in a well-formed document
Garbage == "x"

Pending == <<"pending">>
Resolved(data) == <<"resolved", data>>
Rejected(reason) == <<"rejected", reason>>
TimedOut == Rejected("Request timed out")
NotConnected == Rejected("Client not connected")

VARIABLES
    transport,          \* which client was constructed: "ws" | "unix" | "unix0" | "pipe"
    reconnect,          \* opts.reconnect
    events,             \* opts.events of the named-pipe client
    client,             \* opts.client: 0 (null) or the current handle
    eventClient,        \* opts.eventClient of the named-pipe client: 0 or a handle
    sock,               \* state of every handle ever created
    pool,               \* protocol.pool: id -> request whose callback is stored (0: none)
    reqs,               \* the request() calls so far: id, promise, timer, retry interval, writes
    event_listeners,    \* protocol.event_listeners
    collected_string,   \* protocol_options.collected_string (collected_string_request)
    collected_string_event, \* protocol_options.collected_string_event
    wire,               \* bytes written by the daemon and not yet delivered
    eventWire,          \* the same, on the event pipe
    console,            \* lines the connect handler printed after its version request: [req, line]
    stream,             \* SpecFeed: the frames the daemon wrote on the connection
    chunks,             \* SpecFeed: the sizes of the chunks delivered so far
    decoded,            \* SpecFeed: the documents dispatched so far, in order
    log,                \* documents dispatched by the last handler, in order
    calls,              \* listener invocations made by the last handler, in order
    uncaught,           \* the last handler or call let an exception escape
    destroys,           \* number of destroy() calls so far
    pendingAtDestroy    \* the requests that were pending at the last destroy() call

vars == <<transport, reconnect, events, client, eventClient, sock, pool, reqs,
          event_listeners, collected_string, wire, stream, chunks, decoded, log,
          calls, uncaught, destroys, pendingAtDestroy, collected_string_event,
          eventWire, console>>

Handles == 1..MaxConns

\* ------------------------------------------------------------- wire format

\* A document is serialised as its tag followed by its payload. The tag
\* stands for the fields beside the payload: the requester id of a response,
\* "event" for {ty: "event"}, "event/a" for {ty: "event", requester: "a"}.
Tags == Ids \cup {"event", "event/a"}
Encode(tag, data) == <<tag, data>>
Docs == {Encode(t, d) : t \in Tags, d \in Payloads}
\* segments JSON.parse rejects
Malformed == {<<Garbage>>}

ParseError == [ok |-> FALSE, ty |-> "undefined", requester |-> "undefined", data |-> "undefined"]

\* JSON.parse of one segment, with the fields the handlers read
JSONparse(seg) ==
    IF Len(seg) = 2 /\ seg[1] \in Tags /\ seg[2] \in Payloads
    THEN [ok |-> TRUE,
          ty |-> IF seg[1] \in {"event", "event/a"} THEN "event" ELSE "undefined",
          requester |-> IF seg[1] = "event" THEN "undefined"
                        ELSE IF seg[1] = "event/a" THEN "a" ELSE seg[1],
          data |-> seg[2]]
    ELSE ParseError

\* ----------------------------------------------------------------- promise

\* resolve / reject of a Promise: only the first settlement takes effect
Settle(outcome, new) == IF outcome = Pending THEN new ELSE outcome

\* the function stored in the pool: clearTimeout(timer); resolve(data)
CallbackKeepsTimer(rq, data) == [rq EXCEPT !.outcome = Settle(@, Resolved(data))]
Callback(rq, data) ==
    [rq EXCEPT !.timer = IF @ = "armed" THEN "cleared" ELSE @,
               !.outcome = Settle(@, Resolved(data))]

\* protocol.pool[key], undefined (0) for a key that is not there
LookupAny(p, key) ==
    IF \E k \in DOMAIN p : p[k] # 0 THEN p[CHOOSE k \in DOMAIN p : p[k] # 0] ELSE 0
Lookup(p, key) == IF key \in DOMAIN p THEN p[key] ELSE 0
\* delete protocol.pool[key]
DeleteAll(p, key) == [k \in DOMAIN p |-> 0]
Delete(p, key) == IF key \in DOMAIN p THEN [p EXCEPT ![key] = 0] ELSE p

\* -------------------------------------------------------------- connection

\* a connection check that only asks whether a handle exists
connectedIfHandle == client # 0

\* protocol.connected()
connected == client # 0 /\ sock[client] = "open"

\* StreamduckClient.is_connected()
is_connected == connected

HandlesUsed == Cardinality({h \in Handles : sock[h] # "none"})

\* rec(): a new handle becomes opts.client
rec(h) ==
    /\ client' = h
    /\ sock' = [sock EXCEPT ![h] = "connecting"]
    /\ wire' = <<>>

\* socket.destroy() / ws.terminate() on handle c, called inside an event of
\* handle h: c emits 'close' later unless it is the handle closing now
Destroyed(s, c, h) ==
    IF c = 0 \/ c = h THEN s
    ELSE [s EXCEPT ![c] = IF @ \in {"connecting", "open"} THEN "closing" ELSE @]

\* the 'error' and 'close' handlers: tear the current handle down, null it
DropClient(h, after) ==
    /\ sock' = [Destroyed(sock, client, h) EXCEPT ![h] = after]
    /\ client' = 0
    /\ wire' = IF client = 0 THEN wire ELSE <<>>

\* instrumentation an action leaves alone
Silent == log' = <<>> /\ calls' = <<>> /\ uncaught' = FALSE
Quiet ==
    /\ Silent
    /\ UNCHANGED <<stream, chunks, decoded, events, eventClient, destroys,
                   pendingAtDestroy, collected_string_event, eventWire, console>>

\* a supervisor callback that never reconnects
TickIdle ==
    /\ HandlesUsed < MaxConns \/ client # 0 \/ ~reconnect
    /\ UNCHANGED <<client, sock, wire>>
    /\ Quiet
    /\ UNCHANGED <<transport, reconnect, pool, reqs, event_listeners, collected_string>>

\* a supervisor callback that does not look at opts.reconnect
TickAlways ==
    /\ HandlesUsed < MaxConns \/ client # 0
    /\ IF client = 0
       THEN rec(HandlesUsed + 1)
       ELSE UNCHANGED <<client, sock, wire>>
    /\ Quiet
    /\ UNCHANGED <<transport, reconnect, pool, reqs, event_listeners, collected_string>>

\* the supervisor's setInterval callback
Tick ==
    /\ HandlesUsed < MaxConns \/ client # 0 \/ ~reconnect
    /\ IF client = 0 /\ reconnect
       THEN rec(HandlesUsed + 1)
       ELSE UNCHANGED <<client, sock, wire>>
    /\ Quiet
    /\ UNCHANGED <<transport, reconnect, pool, reqs, event_listeners, collected_string>>

\* an 'error' handler that reconnects at once instead of leaving it to the
\* supervisor
OnErrorReconnects(h) ==
    /\ sock[h] \in {"connecting", "open"}
    /\ HandlesUsed < MaxConns
    /\ sock' = [Destroyed(sock, client, h) EXCEPT ![h] = "closing",
                                                  ![HandlesUsed + 1] = "connecting"]
    /\ client' = HandlesUsed + 1
    /\ wire' = <<>>
    /\ Quiet
    /\ UNCHANGED <<transport, reconnect, pool, reqs, event_listeners, collected_string>>

\* 'error' on handle h: the socket is torn down and emits 'close' afterwards
OnError(h) ==
    /\ sock[h] \in {"connecting", "open"}
    /\ DropClient(h, "closing")
    /\ Quiet
    /\ UNCHANGED <<transport, reconnect, pool, reqs, event_listeners, collected_string>>

\* a 'close' handler that fails every pending request and empties the pool
OnCloseRejectsPending(h) ==
    /\ sock[h] \in {"open", "closing"}
    /\ DropClient(h, "closed")
    /\ reqs' = [r \in DOMAIN reqs |->
                  [reqs[r] EXCEPT !.outcome = Settle(@, NotConnected),
                                  !.timer = IF @ = "armed" THEN "cleared" ELSE @]]
    /\ pool' = [i \in Ids |-> 0]
    /\ Quiet
    /\ UNCHANGED <<transport, reconnect, event_listeners, collected_string>>

\* 'close' on handle h: the peer closed it, or it was destroyed before
OnClose(h) ==
    /\ sock[h] \in {"open", "closing"}
    /\ DropClient(h, "closed")
    /\ Quiet
    /\ UNCHANGED <<transport, reconnect, pool, reqs, event_listeners, collected_string>>

\* ------------------------------------------------- message-transport client

NewRequest(id, sentNow, retry) ==
    [id |-> id, outcome |-> Pending, timer |-> "armed",
     interval |-> retry, sent |-> sentNow]

\* protocol.request of the WebSocket client
WsRequest(id) ==
    /\ Len(reqs) < MaxReq
    /\ reqs' = Append(reqs, IF connected THEN NewRequest(id, 1, "none")
                                         ELSE NewRequest(id, 0, "armed"))
    /\ pool' = [pool EXCEPT ![id] = Len(reqs) + 1]
    /\ Quiet
    /\ UNCHANGED <<transport, reconnect, client, sock, event_listeners,
                   collected_string, wire>>

\* the retry callback without clearInterval: it sends on every tick
WsRetryKeepsPolling(r) ==
    /\ r \in 1..Len(reqs)
    /\ reqs[r].interval = "armed"
    /\ reqs[r].sent < MaxConns + 1
    /\ reqs' = IF connected THEN [reqs EXCEPT ![r].sent = @ + 1] ELSE reqs
    /\ Quiet
    /\ UNCHANGED <<transport, reconnect, client, sock, pool, event_listeners,
                   collected_string, wire>>

\* the retry setInterval callback of request r
WsRetry(r) ==
    /\ r \in 1..Len(reqs)
    /\ reqs[r].interval = "armed"
    /\ reqs' = IF connected
               THEN [reqs EXCEPT ![r].sent = @ + 1, ![r].interval = "cleared"]
               ELSE reqs
    /\ Quiet
    /\ UNCHANGED <<transport, reconnect, client, sock, pool, event_listeners,
                   collected_string, wire>>

\* a deadline callback that leaves the retry interval running
ExpireKeepsPolling(rq) ==
    [rq EXCEPT !.timer = "fired", !.outcome = Settle(@, TimedOut)]

\* what the deadline callback does to its request
ExpireSilent(rq) ==
    [rq EXCEPT !.timer = "fired",
               !.interval = IF @ = "armed" THEN "cleared" ELSE @]
Expire(rq) ==
    [rq EXCEPT !.timer = "fired",
               !.interval = IF @ = "armed" THEN "cleared" ELSE @,
               !.outcome = Settle(@, TimedOut)]

\* the deadline setTimeout callback of request r
WsTimeout(r) ==
    /\ r \in 1..Len(reqs)
    /\ reqs[r].timer = "armed"
    /\ reqs' = [reqs EXCEPT ![r] = Expire(@)]
    /\ Quiet
    /\ UNCHANGED <<transport, reconnect, client, sock, pool, event_listeners,
                   collected_string, wire>>

\* the body of the 'message' handler's try block, for a parsed document
Respond(st, obj, json) ==
    LET r == Lookup(st.pool, obj.requester) IN
    [st EXCEPT !.reqs = IF r # 0 THEN [@ EXCEPT ![r] = Callback(@, obj.data)] ELSE @,
               !.pool = Delete(@, obj.requester),
               !.log = Append(@, [kind |-> "response", json |-> json, to |-> r])]

\* the 'message' handler: JSON.parse and the pool lookup, inside try/catch
WsMessageHandler(st, msg) ==
    LET obj == JSONparse(msg) IN
    IF obj.ok THEN Respond(st, obj, msg) ELSE st

\* messages the daemon sends: a's response with either payload, b's, garbage
WsMessages == {Encode("a", "a"), Encode("a", "p"), Encode("b", "p")} \cup Malformed

\* the handlers' view of the protocol state
Protocol ==
    [pool |-> pool, reqs |-> reqs, collected_string |-> collected_string,
     log |-> <<>>, calls |-> <<>>, uncaught |-> FALSE]

\* 'message' on the current WebSocket
WsMessage(msg) ==
    /\ connected
    /\ LET st == WsMessageHandler(Protocol, msg) IN
        /\ pool' = st.pool
        /\ reqs' = st.reqs
        /\ log' = st.log
        /\ calls' = st.calls
        /\ uncaught' = st.uncaught
    /\ UNCHANGED <<transport, reconnect, client, sock, event_listeners,
                   collected_string, wire, stream, chunks, decoded,
                   events, eventClient, destroys, pendingAtDestroy,
                   collected_string_event, eventWire, console>>

\* 'open' on handle h of the WebSocket client: logs only
WsOpen(h) ==
    /\ sock[h] = "connecting"
    /\ sock' = [sock EXCEPT ![h] = "open"]
    /\ Quiet
    /\ UNCHANGED <<transport, reconnect, client, pool, reqs, event_listeners,
                   collected_string, wire>>

\* state after the constructor: the first rec() has run
InitCommon ==
    /\ reconnect \in BOOLEAN
    /\ events = FALSE
    /\ client = 1
    /\ eventClient = 0
    /\ destroys = 0
    /\ pendingAtDestroy = {}
    /\ collected_string_event = <<>>
    /\ eventWire = <<>>
    /\ console = <<>>
    /\ sock = [h \in Handles |-> IF h = 1 THEN "connecting" ELSE "none"]
    /\ pool = [i \in Ids |-> 0]
    /\ reqs = <<>>
    /\ event_listeners = <<>>
    /\ collected_string = <<>>
    /\ wire = <<>>
    /\ stream = <<>>
    /\ chunks = <<>>
    /\ decoded = <<>>
    /\ log = <<>>
    /\ calls = <<>>
    /\ uncaught = FALSE

InitWs == transport = "ws" /\ InitCommon

NextWs ==
    \/ \E id \in Ids : WsRequest(id)
    \/ \E r \in 1..MaxReq : WsRetry(r)
    \/ \E r \in 1..MaxReq : WsTimeout(r)
    \/ \E msg \in WsMessages : WsMessage(msg)
    \/ \E h \in Handles : WsOpen(h)
    \/ \E h \in Handles : OnError(h)
    \/ \E h \in Handles : OnClose(h)
    \/ Tick

SpecWs == InitWs /\ [][NextWs]_vars

\* the same client with the supervisor's periodic timer firing for ever
SpecWsLive == SpecWs /\ WF_vars(Tick)

\* the WebSocket client with deadline timers that fire once they are due
SpecWsTimers == SpecWs /\ \A r \in 1..MaxReq : WF_vars(WsTimeout(r))

\* ------------------------------------------------------ Unix-socket client

\* collected_string.split("\u0004"): the pieces between the terminators
RECURSIVE SplitFrom(_, _, _)
SplitFrom(s, i, cur) ==
    IF i > Len(s) THEN <<cur>>
    ELSE IF s[i] = EOT THEN <<cur>> \o SplitFrom(s, i + 1, <<>>)
    ELSE SplitFrom(s, i + 1, Append(cur, s[i]))
Split(s) == SplitFrom(s, 1, <<>>)

\* collected_string.includes("\u0004")
Includes(s, c) == \E i \in 1..Len(s) : s[i] = c

\* whether calling listener fn raises
Raises(fn) == fn = "bad"

\* for (const listener of protocol.event_listeners) listener(obj.data):
\* the invocations made, the loop ending at the first listener that raises
RECURSIVE Invocations(_, _, _, _)
Invocations(ls, k, ev, data) ==
    LET call == [ev |-> ev, k |-> k, fn |-> ls[k], data |-> data] IN
    IF k > Len(ls) THEN <<>>
    ELSE IF Raises(ls[k]) THEN <<call>>
    ELSE <<call>> \o Invocations(ls, k + 1, ev, data)

\* the event branch of the 'data' handler
Notify(st, obj, json) ==
    [st EXCEPT !.calls = @ \o Invocations(event_listeners, 1, Len(st.log) + 1, obj.data),
               !.log = Append(@, [kind |-> "event", json |-> json, to |-> 0])]

\* the same callback without the event branch
DispatchAsResponse(st, json) ==
    IF json = <<>> THEN st
    ELSE LET obj == JSONparse(json) IN
         IF ~obj.ok THEN st ELSE Respond(st, obj, json)

\* the same callback without try/catch: the exception of JSON.parse escapes
DispatchNoCatch(st, json) ==
    IF json = <<>> THEN st
    ELSE LET obj == JSONparse(json) IN
         IF ~obj.ok THEN [st EXCEPT !.uncaught = TRUE]
         ELSE IF obj.ty = "event" THEN Notify(st, obj, json)
         ELSE Respond(st, obj, json)

\* the callback forEach runs on one piece: skip "", parse, route, catch
Dispatch(st, json) ==
    IF json = <<>> THEN st
    ELSE LET obj == JSONparse(json) IN
         IF ~obj.ok THEN st
         ELSE IF obj.ty = "event" THEN Notify(st, obj, json)
         ELSE Respond(st, obj, json)

\* the same loop when the callback has no try/catch: the first piece that
\* does not parse ends it
RECURSIVE ForEachNoCatch(_, _, _)
ForEachNoCatch(st, pieces, i) ==
    IF i > Len(pieces) THEN st
    ELSE IF pieces[i] # <<>> /\ ~JSONparse(pieces[i]).ok THEN [st EXCEPT !.uncaught = TRUE]
    ELSE ForEachNoCatch(Dispatch(st, pieces[i]), pieces, i + 1)

RECURSIVE ForEach(_, _, _)
ForEach(st, pieces, i) ==
    IF i > Len(pieces) THEN st
    ELSE ForEach(Dispatch(st, pieces[i]), pieces, i + 1)

\* a 'data' handler that forgets a chunk without terminator
DataHandlerNoBuffer(st, cs) ==
    IF Includes(cs, EOT)
    THEN [ForEach(st, Split(cs), 1) EXCEPT !.collected_string = <<>>]
    ELSE [st EXCEPT !.collected_string = <<>>]

\* the 'data' handler of the Unix client on the buffer cs = collected_string + data
DataHandler(st, cs) ==
    IF Includes(cs, EOT)
    THEN [ForEach(st, Split(cs), 1) EXCEPT !.collected_string = <<>>]
    ELSE [st EXCEPT !.collected_string = cs]

\* 'data' on the current socket: the next n bytes in flight arrive
DataStep(n) ==
    /\ connected
    /\ n \in 1..Len(wire)
    /\ LET st == DataHandler(Protocol, collected_string \o SubSeq(wire, 1, n)) IN
        /\ pool' = st.pool
        /\ reqs' = st.reqs
        /\ log' = st.log
        /\ calls' = st.calls
        /\ collected_string' = st.collected_string
        /\ uncaught' = st.uncaught
    /\ wire' = SubSeq(wire, n + 1, Len(wire))
    /\ UNCHANGED <<transport, reconnect, client, sock, event_listeners,
                   events, eventClient, destroys, pendingAtDestroy,
                   collected_string_event, eventWire, console>>

UnixData(n) == DataStep(n) /\ UNCHANGED <<stream, chunks, decoded>>

\* frames the daemon sends: a's response, b's response, an event, garbage
DaemonFrames == {Encode("a", "a"), Encode("b", "p"), Encode("event", "a")} \cup Malformed
\* frames of an event-heavy daemon: events (one naming a requester), a response
EventFrames == {Encode("event", "a"), Encode("event/a", "p"), Encode("b", "p")}

\* terminated frames in w
RECURSIVE Count(_, _)
Count(w, c) == IF w = <<>> THEN 0 ELSE (IF Head(w) = c THEN 1 ELSE 0) + Count(Tail(w), c)

\* the daemon writes one terminated frame to the open connection
DaemonWrite(frame) ==
    /\ connected
    /\ Count(wire, EOT) < MaxInFlight
    /\ wire' = wire \o frame \o <<EOT>>
    /\ Quiet
    /\ UNCHANGED <<transport, reconnect, client, sock, pool, reqs, event_listeners,
                   collected_string>>

\* a request() that asks for an open connection rather than for a handle
RegisteredIfConnected(rs, id) ==
    IF connected
    THEN Append(rs, [id |-> id, outcome |-> Pending, timer |-> "armed",
                     interval |-> "none", sent |-> 1])
    ELSE Append(rs, [id |-> id, outcome |-> NotConnected, timer |-> "none",
                     interval |-> "none", sent |-> 0])

\* protocol.request of the stream clients, as it changes reqs
Registered(rs, id) ==
    IF client # 0
    THEN Append(rs, [id |-> id, outcome |-> Pending, timer |-> "armed",
                     interval |-> "none", sent |-> 1])
    ELSE Append(rs, [id |-> id, outcome |-> NotConnected, timer |-> "none",
                     interval |-> "none", sent |-> 0])

\* protocol.request of the stream clients
request(id) ==
    /\ reqs' = Registered(reqs, id)
    /\ pool' = IF client # 0 THEN [pool EXCEPT ![id] = Len(reqs) + 1] ELSE pool

UnixRequest(id) ==
    /\ Len(reqs) < MaxReq
    /\ request(id)
    /\ Quiet
    /\ UNCHANGED <<transport, reconnect, client, sock, event_listeners,
                   collected_string, wire>>

\* a deadline callback that never rejects
UnixTimeoutLost(r) ==
    /\ r \in 1..Len(reqs)
    /\ reqs[r].timer = "armed"
    /\ reqs' = [reqs EXCEPT ![r].timer = "fired"]
    /\ Quiet
    /\ UNCHANGED <<transport, reconnect, client, sock, pool, event_listeners,
                   collected_string, wire>>

\* the deadline setTimeout callback of request r: reject("Request timed out")
UnixTimeout(r) ==
    /\ r \in 1..Len(reqs)
    /\ reqs[r].timer = "armed"
    /\ reqs' = [reqs EXCEPT ![r].timer = "fired", ![r].outcome = Settle(@, TimedOut)]
    /\ Quiet
    /\ UNCHANGED <<transport, reconnect, client, sock, pool, event_listeners,
                   collected_string, wire>>

\* 'connect' on handle h: the handler asks the daemon for its version
UnixConnect(h, id) ==
    /\ sock[h] = "connecting"
    /\ Len(reqs) < MaxReq
    /\ sock' = [sock EXCEPT ![h] = "open"]
    /\ request(id)
    /\ Quiet
    /\ UNCHANGED <<transport, reconnect, client, event_listeners,
                   collected_string, wire>>

\* protocol.add_event_listener
add_event_listener(func) ==
    /\ Len(event_listeners) < MaxListeners
    /\ event_listeners' = Append(event_listeners, func)
    /\ Quiet
    /\ UNCHANGED <<transport, reconnect, client, sock, pool, reqs,
                   collected_string, wire>>

InitUnix == transport = "unix" /\ InitCommon /\ reconnect

\* The Unix client under a caller that issues requests
NextUnix ==
    \/ \E id \in Ids : UnixRequest(id)
    \/ \E r \in 1..MaxReq : UnixTimeout(r)
    \/ \E f \in DaemonFrames : DaemonWrite(f)
    \/ \E n \in 1..(3 * MaxInFlight) : UnixData(n)
    \/ \E h \in Handles, id \in Ids : UnixConnect(h, id)
    \/ \E h \in Handles : OnError(h)
    \/ \E h \in Handles : OnClose(h)
    \/ Tick

SpecUnix == InitUnix /\ [][NextUnix]_vars

\* The Unix client under a caller that registers event listeners
NextEvents ==
    \/ \E f \in EventFrames : DaemonWrite(f)
    \/ \E n \in 1..(3 * MaxInFlight) : UnixData(n)
    \/ \E h \in Handles, id \in Ids : UnixConnect(h, id)
    \/ \E fn \in ListenerFns : add_event_listener(fn)
    \/ \E h \in Handles : OnError(h)
    \/ \E h \in Handles : OnClose(h)
    \/ Tick

SpecEvents == InitUnix /\ [][NextEvents]_vars

\* ------------------------------------- the version check of 'connect'

\* responses the daemon sends
ResponseFrames == {Encode("a", "a"), Encode("b", "p")}

\* the version this client expects
client_version == "0.1"

\* data.version of a response payload, as version() reads it
version(data) == IF data = "a" THEN "0.1" ELSE "0.2"

\* the request whose answer the connect handler awaits has been handled
Checked(r) == \E i \in 1..Len(console) : console[i].req = r

\* what the connect handler prints once its version request r resolved
VersionLines(r, v) ==
    IF v # client_version
    THEN <<[req |-> r, line |-> "mismatch"], [req |-> r, line |-> "connected"]>>
    ELSE <<[req |-> r, line |-> "connected"]>>

\* a connect handler that gives the connection up when the versions differ
VersionCheckFatal(r) ==
    /\ r \in 1..Len(reqs)
    /\ reqs[r].outcome \in {Resolved(d) : d \in Payloads}
    /\ ~Checked(r)
    /\ console' = console \o VersionLines(r, version(reqs[r].outcome[2]))
    /\ IF version(reqs[r].outcome[2]) # client_version
       THEN DropClient(0, "closing")
       ELSE UNCHANGED <<client, sock, wire>>
    /\ Silent
    /\ UNCHANGED <<transport, reconnect, events, eventClient, pool, reqs,
                   event_listeners, collected_string, collected_string_event,
                   eventWire, stream, chunks, decoded, destroys, pendingAtDestroy>>

\* the rest of the 'connect' handler, run when the awaited version request r
\* has resolved: compare, print, nothing else
VersionCheck(r) ==
    /\ r \in 1..Len(reqs)
    /\ reqs[r].outcome \in {Resolved(d) : d \in Payloads}
    /\ ~Checked(r)
    /\ console' = console \o VersionLines(r, version(reqs[r].outcome[2]))
    /\ Silent
    /\ UNCHANGED <<transport, reconnect, events, client, eventClient, sock, pool, reqs,
                   event_listeners, collected_string, collected_string_event, wire,
                   eventWire, stream, chunks, decoded, destroys, pendingAtDestroy>>

\* The Unix client whose only requests are the version requests of 'connect'
NextVersion ==
    \/ \E h \in Handles, id \in Ids : UnixConnect(h, id)
    \/ \E r \in 1..MaxReq : VersionCheck(r)
    \/ \E f \in ResponseFrames : DaemonWrite(f)
    \/ \E n \in 1..(3 * MaxInFlight) : UnixData(n)
    \/ \E r \in 1..MaxReq : UnixTimeout(r)
    \/ \E h \in Handles : OnError(h)
    \/ \E h \in Handles : OnClose(h)
    \/ Tick

SpecVersion == InitUnix /\ [][NextVersion]_vars

\* ------------------------------------------------- Unix client with destroy

\* protocol.destroy(). The first Unix client ("unix0") calls client.destroy()
\* on its current handle, which raises when there is none; the current one
\* ("unix") calls opts.destroy, which its options object does not have.
destroy ==
    /\ destroys < MaxDestroy
    /\ destroys' = destroys + 1
    /\ pendingAtDestroy' = {r \in 1..Len(reqs) : reqs[r].outcome = Pending}
    /\ IF transport = "unix0" /\ client # 0
       THEN /\ sock' = [sock EXCEPT ![client] =
                          IF @ \in {"connecting", "open"} THEN "closing" ELSE @]
            /\ wire' = <<>>
            /\ uncaught' = FALSE
       ELSE /\ UNCHANGED <<sock, wire>>
            /\ uncaught' = TRUE
    /\ log' = <<>> /\ calls' = <<>>
    /\ UNCHANGED <<transport, reconnect, events, client, eventClient, pool, reqs,
                   event_listeners, collected_string, stream, chunks, decoded,
                   collected_string_event, eventWire, console>>


InitDestroy == transport \in {"unix", "unix0"} /\ InitCommon /\ reconnect

\* The Unix clients under a caller that issues requests and calls destroy()
NextDestroy ==
    \/ destroy
    \/ \E id \in Ids : UnixRequest(id)
    \/ \E r \in 1..MaxReq : UnixTimeout(r)
    \/ \E f \in ResponseFrames : DaemonWrite(f)
    \/ \E n \in 1..(3 * MaxInFlight) : UnixData(n)
    \/ \E h \in Handles, id \in Ids : UnixConnect(h, id)
    \/ \E h \in Handles : OnError(h)
    \/ \E h \in Handles : OnClose(h)
    \/ Tick

\* every armed deadline timer fires unless it is cleared first
SpecDestroy ==
    InitDestroy /\ [][NextDestroy]_vars /\ \A r \in 1..MaxReq : WF_vars(UnixTimeout(r))

\* ------------------------------------------------------- named-pipe client

\* handles of the named-pipe client: its k-th rec() creates handle 2k-1 on
\* the request pipe and, with events enabled, handle 2k on the event pipe
WinHandles == 1..(2 * MaxConns)
RequestHandles == {h \in WinHandles : h % 2 = 1}
EventHandles == {h \in WinHandles : h % 2 = 0}

\* rec() calls made so far
WinRecs == Cardinality({h \in RequestHandles : sock[h] # "none"})

\* rec() of the named-pipe client: a new request handle, and a new event
\* handle when events are enabled; the handles they replace are left as they are
WinRec(k) ==
    /\ client' = 2 * k - 1
    /\ eventClient' = IF events THEN 2 * k ELSE eventClient
    /\ sock' = [sock EXCEPT ![2 * k - 1] = "connecting",
                            ![2 * k] = IF events THEN "connecting" ELSE @]
    /\ wire' = <<>>
    /\ eventWire' = IF events THEN <<>> ELSE eventWire

\* a supervisor that treats a missing event handle as a lost connection even
\* when events are disabled
WinTickAnyNull ==
    LET lost == (client = 0 \/ eventClient = 0) /\ reconnect IN
    /\ WinRecs < MaxConns \/ ~lost
    /\ IF lost THEN WinRec(WinRecs + 1)
               ELSE UNCHANGED <<client, eventClient, sock, wire, eventWire>>
    /\ Silent
    /\ UNCHANGED <<transport, reconnect, events, pool, reqs, event_listeners,
                   collected_string, collected_string_event, stream, chunks, decoded,
                   destroys, pendingAtDestroy, console>>

\* the supervisor's setInterval callback of the named-pipe client
WinTick ==
    LET lost == \/ client = 0 /\ reconnect
                \/ eventClient = 0 /\ reconnect /\ events IN
    /\ WinRecs < MaxConns \/ ~lost
    /\ IF lost THEN WinRec(WinRecs + 1)
               ELSE UNCHANGED <<client, eventClient, sock, wire, eventWire>>
    /\ Silent
    /\ UNCHANGED <<transport, reconnect, events, pool, reqs, event_listeners,
                   collected_string, collected_string_event, stream, chunks, decoded,
                   destroys, pendingAtDestroy, console>>

\* the connect callback of request handle h: asks the daemon for its version
WinConnect(h, id) ==
    /\ sock[h] = "connecting"
    /\ Len(reqs) < MaxReq
    /\ sock' = [sock EXCEPT ![h] = "open"]
    /\ request(id)
    /\ Quiet
    /\ UNCHANGED <<transport, reconnect, client, event_listeners,
                   collected_string, wire>>

\* event handle h connects; the client registers no handler for it
WinEventOpen(h) ==
    /\ sock[h] = "connecting"
    /\ sock' = [sock EXCEPT ![h] = "open"]
    /\ Quiet
    /\ UNCHANGED <<transport, reconnect, client, pool, reqs, event_listeners,
                   collected_string, wire>>

\* the 'error' and 'close' handlers of event handle h
DropEventClient(h, after) ==
    /\ sock' = [Destroyed(sock, eventClient, h) EXCEPT ![h] = after]
    /\ eventClient' = 0
    /\ eventWire' = IF eventClient = 0 THEN eventWire ELSE <<>>
    /\ Silent
    /\ UNCHANGED <<transport, reconnect, events, client, pool, reqs, event_listeners,
                   collected_string, collected_string_event, wire, stream, chunks,
                   decoded, destroys, pendingAtDestroy, console>>

WinEventError(h) == sock[h] \in {"connecting", "open"} /\ DropEventClient(h, "closing")

WinEventClose(h) == sock[h] \in {"open", "closing"} /\ DropEventClient(h, "closed")

\* state after newWindowsClient(opts): the first rec() has run
InitWin ==
    /\ transport = "pipe"
    /\ reconnect \in BOOLEAN
    /\ events \in BOOLEAN
    /\ client = 1
    /\ eventClient = IF events THEN 2 ELSE 0
    /\ sock = [h \in WinHandles |->
                 IF h = 1 \/ (h = 2 /\ events) THEN "connecting" ELSE "none"]
    /\ pool = [i \in Ids |-> 0]
    /\ reqs = <<>>
    /\ event_listeners = <<>>
    /\ collected_string = <<>>
    /\ wire = <<>>
    /\ stream = <<>>
    /\ chunks = <<>>
    /\ decoded = <<>>
    /\ log = <<>>
    /\ calls = <<>>
    /\ uncaught = FALSE
    /\ destroys = 0
    /\ pendingAtDestroy = {}
    /\ collected_string_event = <<>>
    /\ eventWire = <<>>
    /\ console = <<>>

\* the connections of the named-pipe client
NextWin ==
    \/ WinTick
    \/ \E h \in RequestHandles, id \in Ids : WinConnect(h, id)
    \/ \E h \in EventHandles : WinEventOpen(h)
    \/ \E h \in RequestHandles : OnError(h)
    \/ \E h \in RequestHandles : OnClose(h)
    \/ \E h \in EventHandles : WinEventError(h)
    \/ \E h \in EventHandles : WinEventClose(h)
    \/ \E r \in 1..MaxReq : UnixTimeout(r)

SpecWin == InitWin /\ [][NextWin]_vars

\* the forEach callback of the request pipe's 'data' handler: every parsed
\* document is looked up in the pool, whatever its ty
WinDispatch(st, json) ==
    IF json = <<>> THEN st
    ELSE LET obj == JSONparse(json) IN
         IF ~obj.ok THEN st ELSE Respond(st, obj, json)

RECURSIVE WinForEach(_, _, _)
WinForEach(st, pieces, i) ==
    IF i > Len(pieces) THEN st
    ELSE WinForEach(WinDispatch(st, pieces[i]), pieces, i + 1)

\* the 'data' handler of the request pipe on cs = collected_string_request + data
WinDataHandler(st, cs) ==
    IF Includes(cs, EOT)
    THEN [WinForEach(st, Split(cs), 1) EXCEPT !.collected_string = <<>>]
    ELSE [st EXCEPT !.collected_string = cs]

\* 'data' on the current request handle
WinData(n) ==
    /\ connected
    /\ n \in 1..Len(wire)
    /\ LET st == WinDataHandler(Protocol, collected_string \o SubSeq(wire, 1, n)) IN
        /\ pool' = st.pool
        /\ reqs' = st.reqs
        /\ log' = st.log
        /\ calls' = st.calls
        /\ collected_string' = st.collected_string
        /\ uncaught' = st.uncaught
    /\ wire' = SubSeq(wire, n + 1, Len(wire))
    /\ UNCHANGED <<transport, reconnect, client, sock, event_listeners,
                   events, eventClient, destroys, pendingAtDestroy,
                   collected_string_event, eventWire, console, stream, chunks, decoded>>

\* the forEach callback of the event pipe's 'data' handler: a parsed document
\* reaches the listeners when its ty is "event", and is dropped otherwise
WinEventDispatch(st, json) ==
    IF json = <<>> THEN st
    ELSE LET obj == JSONparse(json) IN
         IF ~obj.ok THEN st
         ELSE IF obj.ty = "event" THEN Notify(st, obj, json)
         ELSE st

RECURSIVE WinEventForEach(_, _, _)
WinEventForEach(st, pieces, i) ==
    IF i > Len(pieces) THEN st
    ELSE WinEventForEach(WinEventDispatch(st, pieces[i]), pieces, i + 1)

\* the 'data' handler of the event pipe on cs = collected_string_event + data
WinEventDataHandler(st, cs) ==
    IF Includes(cs, EOT)
    THEN [WinEventForEach(st, Split(cs), 1) EXCEPT !.collected_string = <<>>]
    ELSE [st EXCEPT !.collected_string = cs]

eventConnected == eventClient # 0 /\ sock[eventClient] = "open"

\* 'data' on the current event handle
WinEventData(n) ==
    /\ eventConnected
    /\ n \in 1..Len(eventWire)
    /\ LET st == WinEventDataHandler(Protocol,
                    collected_string_event \o SubSeq(eventWire, 1, n)) IN
        /\ log' = st.log
        /\ calls' = st.calls
        /\ collected_string_event' = st.collected_string
        /\ uncaught' = st.uncaught
    /\ eventWire' = SubSeq(eventWire, n + 1, Len(eventWire))
    /\ UNCHANGED <<transport, reconnect, client, sock, event_listeners, pool, reqs,
                   events, eventClient, destroys, pendingAtDestroy, console,
                   collected_string, wire, stream, chunks, decoded>>

\* the daemon writes one terminated frame to the open event pipe
WinDaemonEvent(frame) ==
    /\ eventConnected
    /\ Count(eventWire, EOT) < MaxInFlight
    /\ eventWire' = eventWire \o frame \o <<EOT>>
    /\ Silent
    /\ UNCHANGED <<transport, reconnect, events, client, eventClient, sock, pool, reqs,
                   event_listeners, collected_string, collected_string_event, wire,
                   stream, chunks, decoded, destroys, pendingAtDestroy, console>>

\* frames on the request pipe: a response, and a document tagged as an event
\* that names requester "a"
PipeRequestFrames == {Encode("a", "a"), Encode("event/a", "p")}
\* frames on the event pipe: a document tagged ty: "event", one without ty,
\* garbage
PipeEventFrames == {Encode("event", "a"), Encode("b", "p")} \cup Malformed

InitPipe == InitWin /\ events /\ reconnect

\* the named-pipe client with both pipes carrying data, on connections that
\* stay up
NextPipe ==
    \/ WinTick
    \/ \E h \in RequestHandles, id \in Ids : WinConnect(h, id)
    \/ \E h \in EventHandles : WinEventOpen(h)
    \/ \E f \in PipeRequestFrames : DaemonWrite(f)
    \/ \E n \in 1..(3 * MaxInFlight) : WinData(n)
    \/ \E f \in PipeEventFrames : WinDaemonEvent(f)
    \/ \E n \in 1..(3 * MaxInFlight) : WinEventData(n)
    \/ add_event_listener("f")

SpecPipe == InitPipe /\ [][NextPipe]_vars

\* ------------------------------------------------- one connection's decoder

RECURSIVE Flatten(_)
Flatten(frames) ==
    IF frames = <<>> THEN <<>> ELSE Head(frames) \o <<EOT>> \o Flatten(Tail(frames))

Streams == UNION {[1..n -> DaemonFrames] : n \in 1..MaxFrames}

\* A connected Unix client whose 'connect' handler has registered its version
\* request, and to which the daemon has written the frames of stream.
InitFeed ==
    /\ transport = "unix"
    /\ reconnect = TRUE
    /\ events = FALSE
    /\ client = 1
    /\ eventClient = 0
    /\ destroys = 0
    /\ pendingAtDestroy = {}
    /\ collected_string_event = <<>>
    /\ eventWire = <<>>
    /\ console = <<>>
    /\ sock = [h \in Handles |-> IF h = 1 THEN "open" ELSE "none"]
    /\ \E id \in Ids :
        /\ reqs = <<[id |-> id, outcome |-> Pending, timer |-> "armed",
                     interval |-> "none", sent |-> 1]>>
        /\ pool = [i \in Ids |-> IF i = id THEN 1 ELSE 0]
    /\ event_listeners = <<>>
    /\ collected_string = <<>>
    /\ stream \in Streams
    /\ wire = Flatten(stream)
    /\ chunks = <<>>
    /\ decoded = <<>>
    /\ log = <<>>
    /\ calls = <<>>
    /\ uncaught = FALSE

\* 'data' with the next n bytes of the stream, recording what was dispatched
FeedData(n) ==
    /\ DataStep(n)
    /\ chunks' = Append(chunks, n)
    /\ decoded' = decoded \o [i \in 1..Len(log') |-> log'[i].json]
    /\ UNCHANGED stream

NextFeed == \E n \in 1..(3 * MaxFrames) : FeedData(n)

SpecFeed == InitFeed /\ [][NextFeed]_vars

\* ================================================================== claims

Requests == 1..Len(reqs)

\* C1: a request's future is completed at most once, by a response (resolve)
\* or by its deadline (expire): once it has an outcome, no later response and
\* no later timer changes that outcome, and a response that completed it
\* cancelled the timer.
C1_CompletedOnce ==
    [][\A r \in Requests :
         /\ reqs[r].outcome # Pending => reqs'[r].outcome = reqs[r].outcome
         /\ reqs'[r].outcome \in {Pending, TimedOut} \cup {Resolved(d) : d \in Payloads}
         /\ reqs'[r].outcome # Pending /\ reqs'[r].outcome # TimedOut
              => reqs'[r].timer = "cleared"]_vars

\* one request completed by its response, another by its deadline and then
\* sent a late response (which removed its pool entry)
C1_BothOrders ==
    \E r, q \in Requests :
        /\ reqs[r].id # reqs[q].id
        /\ reqs[r].outcome = Resolved("p") /\ reqs[r].timer = "cleared"
        /\ reqs[q].outcome = TimedOut /\ pool[reqs[q].id] = 0

\* C2: when the deadline timer of a registered request fires, the caller gets
\* the failure "Request timed out", and that outcome stays whatever arrives
\* later, a response bearing the request's id included.
C2_TimeoutSurfaced ==
    [][\A r \in Requests :
         /\ reqs[r].timer = "armed" /\ reqs'[r].timer = "fired"
              => reqs'[r].outcome = TimedOut
         /\ reqs[r].outcome = TimedOut => reqs'[r].outcome = TimedOut]_vars

\* the response for a timed-out request has just been delivered to its stale
\* pool entry, and the request is still timed out
C2_LateResponse ==
    /\ Len(log) = 1
    /\ log[1].to # 0
    /\ reqs[log[1].to].outcome = TimedOut
    /\ reqs[log[1].to].id = JSONparse(log[1].json).requester

\* the id a delivered document answers
Answered(e) == JSONparse(e.json).requester
IsPending(id) == \E r \in Requests : reqs[r].id = id /\ reqs[r].outcome = Pending

\* C6: a response whose id is not pending (never registered, already answered
\* or timed out) raises nothing, completes no future and leaves every request
\* and every other id's pool entry as they were.
C6_StaleIgnored ==
    [][\A msg \in WsMessages :
         WsMessage(msg) /\ ~IsPending(JSONparse(msg).requester) =>
            /\ reqs' = reqs
            /\ \A i \in Ids : i # JSONparse(msg).requester => pool'[i] = pool[i]
            /\ uncaught' = FALSE]_vars

\* a response for an id without a pool entry has just been delivered while
\* another request is pending with its timer armed
C6_StaleDelivered ==
    /\ Len(log) = 1
    /\ log[1].to = 0
    /\ \E q \in Requests :
        /\ reqs[q].outcome = Pending /\ reqs[q].timer = "armed"
        /\ pool[reqs[q].id] = q
        /\ reqs[q].id # Answered(log[1])

\* C7: outstanding requests are correlated by id alone: a delivered response
\* completes the pending request stored under its id with its payload, and
\* changes no request with another id, whatever the order of arrival.
C7_CorrelatedById ==
    [][\A msg \in WsMessages :
         WsMessage(msg) /\ JSONparse(msg).ok =>
            LET id == JSONparse(msg).requester
                data == JSONparse(msg).data IN
            /\ \A r \in Requests :
                 reqs'[r] # reqs[r] =>
                    /\ reqs[r].id = id
                    /\ reqs'[r].outcome = Resolved(data)
            /\ \A r \in Requests :
                 pool[id] = r /\ reqs[r].outcome = Pending
                    => reqs'[r].outcome = Resolved(data)]_vars

\* two requests with different ids were outstanding and the second was
\* answered first: the first has just been completed with its own payload
C7_ReverseOrder ==
    /\ Len(reqs) = 2
    /\ reqs[1].id = "a" /\ reqs[2].id = "b"
    /\ reqs[2].outcome = Resolved("p")
    /\ Len(log) = 1 /\ log[1].to = 1
    /\ reqs[1].outcome = Resolved("a")

\* ------------------------------------------------------- decoder (SpecFeed)

StreamWellFormed == \A i \in 1..Len(stream) : stream[i] \in Docs

RECURSIVE Sum(_)
Sum(ns) == IF ns = <<>> THEN 0 ELSE Head(ns) + Sum(Tail(ns))

\* the bytes delivered so far, and the part of them after the last terminator
Delivered == SubSeq(Flatten(stream), 1, Sum(chunks))
Remainder == LET pieces == Split(Delivered) IN pieces[Len(pieces)]

\* C3: for a stream of N well-formed terminated frames, the data handler has
\* dispatched exactly those N documents once the stream is delivered,
\* wherever the chunk boundaries fall, and after every chunk the bytes after
\* the last terminator are kept in the buffer.
C3_EveryFrameDecoded ==
    StreamWellFormed =>
        /\ wire = <<>> => decoded = stream
        /\ collected_string = Remainder

\* C5: a malformed segment between two well-formed frames is dropped and the
\* two frames are decoded and dispatched, nothing escaping the handler, when
\* the three segments arrive in one chunk or each in a chunk of its own.
AroundMalformed ==
    /\ Len(stream) = 3
    /\ stream[1] \in Docs /\ stream[2] \in Malformed /\ stream[3] \in Docs
InOneChunk == chunks = <<Len(Flatten(stream))>>
InOwnChunks == chunks = [i \in 1..Len(stream) |-> Len(stream[i]) + 1]
C5_MalformedSkipped ==
    AroundMalformed /\ (InOneChunk \/ InOwnChunks) =>
        /\ decoded = <<stream[1], stream[3]>>
        /\ uncaught = FALSE
        /\ collected_string = <<>>

\* the three segments arrived in one chunk and both frames were dispatched
C5_OneChunk ==
    /\ AroundMalformed /\ InOneChunk
    /\ Len(log) = 2 /\ log[1].json = stream[1] /\ log[2].json = stream[3]

\* ------------------------------------------------- Unix client (SpecUnix)

\* the frames of a chunk made of two or more complete documents
FramesOf(chunk) == SubSeq(Split(chunk), 1, Len(Split(chunk)) - 1)
SeveralFrames(chunk) ==
    /\ chunk # <<>>
    /\ chunk[Len(chunk)] = EOT
    /\ Count(chunk, EOT) >= 2
    /\ \A i \in 1..Len(FramesOf(chunk)) : FramesOf(chunk)[i] \in Docs

IsResponse(json) == JSONparse(json).ty # "event"
\* frame i is the first response of the chunk for its requester
FirstFor(frames, i) ==
    \A j \in 1..(i - 1) :
        IsResponse(frames[j]) => JSONparse(frames[j]).requester # JSONparse(frames[i]).requester

\* what C4 asks of the step that handles a chunk of several complete frames
EachFrameDispatched(chunk) ==
    LET frames == FramesOf(chunk) IN
    /\ [i \in 1..Len(log') |-> log'[i].json] = frames
    /\ \A i \in 1..Len(frames) :
         LET obj == JSONparse(frames[i])
             r == Lookup(pool, obj.requester) IN
         IsResponse(frames[i]) /\ FirstFor(frames, i) /\ r # 0 /\ reqs[r].outcome = Pending
            => reqs'[r].outcome = Resolved(obj.data)

\* C4: when one chunk carries several complete frames, each is decoded as its
\* own document and dispatched in wire order, every response completing the
\* pending request stored under its requester id with its own payload.
C4_SeveralFramesPerChunk ==
    [][\A n \in 1..Len(wire) :
         UnixData(n) /\ SeveralFrames(SubSeq(wire, 1, n))
            => EachFrameDispatched(SubSeq(wire, 1, n))]_vars

\* the same, for chunks that arrive while the buffer is empty
C4_OnEmptyBuffer ==
    [][\A n \in 1..Len(wire) :
         UnixData(n) /\ SeveralFrames(SubSeq(wire, 1, n)) /\ collected_string = <<>>
            => EachFrameDispatched(SubSeq(wire, 1, n))]_vars

\* a chunk with a's and b's responses completed both pending requests
C4_BothCompleted ==
    /\ Len(log) = 2
    /\ log[1].json = Encode("a", "a") /\ log[1].to # 0
    /\ log[2].json = Encode("b", "p") /\ log[2].to # 0
    /\ reqs[log[1].to].outcome = Resolved("a")
    /\ reqs[log[2].to].outcome = Resolved("p")

\* ------------------------------------------------ event feed (SpecEvents)

Called(cs, ev, k) == \E c \in 1..Len(cs) : cs[c].ev = ev /\ cs[c].k = k

\* C8: on the combined channel a document tagged ty: "event" goes to the
\* event listeners with its data and is never handled as a response: it
\* completes no request and removes no pool entry, whichever ids are pending
\* and whatever it carries.
C8_EventsNotResponses ==
    [][\A n \in 1..Len(wire) : UnixData(n) =>
         /\ \A i \in 1..Len(log') :
              ~IsResponse(log'[i].json) =>
                 /\ log'[i].kind = "event"
                 /\ log'[i].to = 0
                 /\ event_listeners # <<>> =>
                      \E c \in 1..Len(calls') :
                         calls'[c] = [ev |-> i, k |-> 1, fn |-> event_listeners[1],
                                      data |-> JSONparse(log'[i].json).data]
         /\ (\A i \in 1..Len(log') : ~IsResponse(log'[i].json))
              => pool' = pool /\ reqs' = reqs]_vars

\* an event naming requester "a" was handed to a listener while the request
\* with id "a" is pending in the pool
C8_EventBesidePending ==
    /\ Len(log) >= 1
    /\ log[1].json = Encode("event/a", "p")
    /\ calls # <<>> /\ calls[1].data = "p"
    /\ pool["a"] # 0
    /\ reqs[pool["a"]].outcome = Pending

\* the invocations C9 asks for: per dispatched event, every registration once,
\* in registration order, with the event's payload
RECURSIVE OncePerRegistration(_, _, _)
OncePerRegistration(lg, ls, i) ==
    IF i > Len(lg) THEN <<>>
    ELSE (IF IsResponse(lg[i].json) THEN <<>>
          ELSE [k \in 1..Len(ls) |->
                  [ev |-> i, k |-> k, fn |-> ls[k], data |-> JSONparse(lg[i].json).data]])
         \o OncePerRegistration(lg, ls, i + 1)

IsPrefix(s, t) == Len(s) <= Len(t) /\ SubSeq(t, 1, Len(s)) = s

\* C9: the listeners are an ordered collection without de-duplication: every
\* dispatched event invokes every registration exactly once, in registration
\* order, with the event's payload, and registrations are never dropped,
\* across disconnects and reconnects too.
C9_EveryListenerInOrder ==
    [][/\ IsPrefix(event_listeners, event_listeners')
       /\ \A n \in 1..Len(wire) :
            UnixData(n) => calls' = OncePerRegistration(log', event_listeners, 1)]_vars

\* supporting lemma for C9: as long as no registered listener raises, every
\* event does reach every registration once, in order
C9_WhenNoneRaises ==
    [][/\ IsPrefix(event_listeners, event_listeners')
       /\ \A n \in 1..Len(wire) :
            (UnixData(n) /\ \A k \in 1..Len(event_listeners) : ~Raises(event_listeners[k]))
               => calls' = OncePerRegistration(log', event_listeners, 1)]_vars

\* C10: when listener k raises during the dispatch of an event, listeners
\* k+1..N are still invoked for that event.
C10_RaisingListenerIsolated ==
    [][\A n \in 1..Len(wire) : UnixData(n) =>
         \A c \in 1..Len(calls') :
            Raises(calls'[c].fn) =>
               \A k \in (calls'[c].k + 1)..Len(event_listeners) :
                  Called(calls', calls'[c].ev, k)]_vars

\* ------------------------------------------- failure outcomes and sending

\* the outcomes C11 allows a request() call: pending, a response, a timeout
TimeoutOnlyFailure(r) ==
    reqs[r].outcome \in {Pending, TimedOut} \cup {Resolved(d) : d \in Payloads}

\* C11: "Request timed out" is the only failure a request() call ever gives
\* its caller; a request issued while no connection exists is not failed at
\* once.
C11_OnlyTimeoutFails == \A r \in Requests : TimeoutOnlyFailure(r)

\* supporting lemma for C11: the message-transport client does keep to it
C11_WsOnlyTimeoutFails == transport = "ws" => \A r \in Requests : TimeoutOnlyFailure(r)

\* what C12 asks of a step: a request issued while the channel is
\* Disconnected is queued (pending, unsent, its retry armed), a queued request
\* is transmitted only on a connected channel, and no request is transmitted
\* more than once
QueuedThenSentOnce ==
    \A r \in 1..Len(reqs') :
        /\ r > Len(reqs) /\ client = 0 =>
              /\ reqs'[r].outcome = Pending
              /\ reqs'[r].sent = 0
              /\ reqs'[r].interval = "armed"
        /\ r <= Len(reqs) /\ reqs[r].sent = 0 /\ reqs'[r].sent = 1 =>
              connected /\ reqs'[r].interval = "cleared"
        /\ reqs'[r].sent <= 1

\* C12: requests issued while the channel is Disconnected are queued and
\* retried; once the channel is Connected a queued request is transmitted
\* exactly once and never duplicated, however many are queued.
C12_QueuedThenSentOnce == [][QueuedThenSentOnce]_vars

\* supporting lemma for C12: the message-transport client queues and sends once
C12_WsQueuedThenSentOnce == [][transport = "ws" => QueuedThenSentOnce]_vars

\* two requests queued while Disconnected were both sent once after the
\* reconnection (message-transport client)
C12_WsBothSentAfterReconnect ==
    /\ Len(reqs) = 2
    /\ \A r \in Requests : reqs[r].sent = 1 /\ reqs[r].interval = "cleared"
    /\ client = 2 /\ sock[2] = "open"

\* C13: the engine never resends a request: each is written to the wire at
\* most once over its life, and once written no retry of it stays armed,
\* whatever happens to the connection while it is pending.
C13_NeverResent ==
    \A r \in Requests :
        /\ reqs[r].sent <= 1
        /\ reqs[r].sent = 1 => reqs[r].interval # "armed"

\* a request written on the first connection is still pending after that
\* connection was lost and a second one opened, and it was written once
C13_PendingAcrossReconnect ==
    \E r \in Requests :
        /\ reqs[r].sent = 1 /\ reqs[r].interval = "none"
        /\ reqs[r].outcome = Pending
        /\ sock[1] = "closed"
        /\ client = 2 /\ sock[2] = "open"

\* -------------------------------------------------------------- supervisor

\* C14: with reconnection enabled, a supervisor tick that finds the channel
\* Disconnected starts a new connection (a fresh handle, Connecting), so as
\* long as the timer keeps firing a lost connection is followed by a new
\* attempt.
C14_TickReconnects ==
    /\ [][(Tick /\ client = 0 /\ reconnect) =>
            /\ client' # 0
            /\ sock[client'] = "none"
            /\ sock'[client'] = "connecting"]_vars
    /\ (client = 0 /\ reconnect /\ HandlesUsed < MaxConns) ~> (client # 0)

\* the first connection was lost and the supervisor has started a second one
C14_SecondAttempt ==
    /\ reconnect
    /\ sock[1] \in {"closing", "closed"}
    /\ client = 2 /\ sock[2] = "connecting"

\* a channel whose current handle is Connecting or Connected
Live(c) == c # 0 /\ sock[c] \in {"connecting", "open"}

\* what C15 asks of a step: a channel that is Connecting or Connected keeps
\* its handle or loses it; it is not given a new one
NoSecondAttempt ==
    /\ Live(client) => client' \in {client, 0}
    /\ Live(eventClient) => eventClient' \in {eventClient, 0}

\* C15: at most one connection attempt is in flight per channel: no
\* supervisor tick starts a new connection on a channel that is Connecting or
\* Connected, in the named-pipe client with its two channels too.
C15_OneAttemptPerChannel == [][NoSecondAttempt]_vars

\* supporting lemma for C15: the clients with a single channel keep to it
C15_SingleChannel == [][transport = "unix" => NoSecondAttempt]_vars

\* C16: with reconnect set to false the supervisor never starts a connection:
\* the handle made at construction is the only one ever created, and once it
\* is lost the channel stays Disconnected.
C16_NoReconnect ==
    /\ [](~reconnect => HandlesUsed = 1)
    /\ [][~reconnect /\ client = 0 => client' = 0]_vars

\* reconnect is off, the only connection was lost and closed, and a request
\* issued after the loss has run into its deadline unsent
C16_StaysDisconnected ==
    /\ ~reconnect
    /\ client = 0 /\ sock[1] = "closed"
    /\ \E r \in Requests : reqs[r].sent = 0 /\ reqs[r].outcome = TimedOut

\* ----------------------------------------------------------------- destroy

\* C17: after destroy() has been called the supervisor makes no reconnect
\* attempt: no new connection handle is created.
C17_NoReconnectAfterDestroy == [][destroys > 0 => HandlesUsed' = HandlesUsed]_vars

\* C18: every request pending when destroy() is called eventually completes,
\* with a response or a failure; none stays pending for ever.
C18_PendingComplete ==
    \A r \in 1..MaxReq :
        (r \in pendingAtDestroy) ~> (r <= Len(reqs) /\ reqs[r].outcome # Pending)

\* a request that was pending at destroy() has since timed out
C18_TimedOutAfterDestroy ==
    /\ destroys > 0
    /\ \E r \in pendingAtDestroy : reqs[r].outcome = TimedOut

\* C19: destroy() may be called in any connection state, raises nothing and
\* closes the active handle, and the client is then in a final state: no
\* handle is Connecting or Connected afterwards.
C19_DestroyIsFinal ==
    [][/\ destroys' > destroys =>
            /\ uncaught' = FALSE
            /\ client' = 0 \/ sock'[client'] \notin {"connecting", "open"}
       /\ destroys > 0 =>
            \A h \in Handles : sock'[h] \in {"connecting", "open"} => sock'[h] = sock[h]]_vars

\* ---------------------------------------------------- named-pipe channels

\* C20: the request channel and the event channel of the named-pipe client
\* are independent: a step that takes or replaces the handle of one channel
\* leaves the other channel's handle and its state as they were, so a tick
\* reconnects only the channel that is Disconnected.
C20_ChannelsIndependent ==
    [][/\ client # 0 /\ client' # client =>
            /\ eventClient' = eventClient
            /\ eventClient # 0 => sock'[eventClient] = sock[eventClient]
       /\ eventClient # 0 /\ eventClient' # eventClient =>
            /\ client' = client
            /\ client # 0 => sock'[client] = sock[client]]_vars

\* supporting lemma for C20: the 'error' and 'close' handlers of one channel
\* leave the other channel's handle and state alone
C20_HandlersIndependent ==
    [][/\ (\E h \in RequestHandles : OnError(h) \/ OnClose(h)) =>
            /\ eventClient' = eventClient
            /\ eventClient # 0 => sock'[eventClient] = sock[eventClient]
       /\ (\E h \in EventHandles : WinEventError(h) \/ WinEventClose(h)) =>
            /\ client' = client
            /\ client # 0 => sock'[client] = sock[client]]_vars

\* the event pipe delivers exactly one whole frame into an empty buffer
OneEventFrame(n) ==
    /\ collected_string_event = <<>>
    /\ n = 3
    /\ Len(eventWire) >= 3
    /\ eventWire[3] = EOT
    /\ JSONparse(SubSeq(eventWire, 1, 2)).ok

\* C21: a decoded document arriving on the event pipe of the named-pipe client
\* is an event and reaches the listeners with its data, whether or not it
\* carries ty: "event"; every document the request pipe decodes is handled as a
\* response.
C21_ChannelClassifies ==
    [][/\ \A n \in 1..Len(eventWire) : (WinEventData(n) /\ OneEventFrame(n)) =>
             /\ Len(log') = 1
             /\ log'[1].kind = "event"
             /\ event_listeners # <<>> =>
                  /\ calls' # <<>>
                  /\ calls'[1].data = JSONparse(SubSeq(eventWire, 1, 2)).data
       /\ \A n \in 1..Len(wire) : WinData(n) =>
             \A i \in 1..Len(log') : log'[i].kind = "response"]_vars

\* the request-pipe half of C21: whatever the request pipe decodes, ty: "event"
\* included, is looked up in the pool and invokes no listener, and a document
\* tagged ty: "event" on the event pipe reaches the listeners
C21_RequestPipeAndTaggedEvents ==
    [][/\ \A n \in 1..Len(wire) : WinData(n) =>
             /\ \A i \in 1..Len(log') : log'[i].kind = "response"
             /\ calls' = <<>>
       /\ \A n \in 1..Len(eventWire) :
             (WinEventData(n) /\ OneEventFrame(n)
                /\ JSONparse(SubSeq(eventWire, 1, 2)).ty = "event"
                /\ event_listeners # <<>>) =>
                  /\ calls' # <<>>
                  /\ calls'[1].data = JSONparse(SubSeq(eventWire, 1, 2)).data
                  /\ pool' = pool /\ reqs' = reqs]_vars

\* C22: with events disabled the named-pipe client never has an event handle,
\* neither from construction nor from a supervisor tick, and a tick leaves a
\* request channel that still has its handle alone.
C22_NoEventChannel ==
    /\ [](~events => /\ eventClient = 0
                      /\ \A h \in EventHandles : sock[h] = "none")
    /\ [][(~events /\ WinTick) =>
            /\ eventClient' = 0
            /\ \A h \in EventHandles : sock'[h] = "none"
            /\ client # 0 => (client' = client /\ sock' = sock)]_vars

\* events are disabled, the request channel was lost and a tick has replaced
\* it with a second handle, and there is still no event handle
C22_ReconnectedWithoutEvents ==
    /\ ~events
    /\ client = 3
    /\ sock[1] = "closed"
    /\ eventClient = 0
    /\ \A h \in EventHandles : sock[h] = "none"

\* the state of the request channel in the words of the specification
ChannelState ==
    IF client = 0 THEN "Disconnected"
    ELSE IF sock[client] = "open" THEN "Connected"
    ELSE "Connecting"

\* C23: is_connected() is true exactly when the request channel is Connected:
\* it turns true when the current handle opens, is false once the handle is
\* dropped by 'error' or 'close', and false again right after a reconnect.
C23_IsConnectedIffConnected ==
    /\ [](is_connected <=> ChannelState = "Connected")
    /\ [][/\ \A h \in Handles :
               /\ (WsOpen(h) /\ h = client) => (~is_connected /\ is_connected')
               /\ (OnError(h) \/ OnClose(h)) /\ h = client => ~is_connected'
       /\ (Tick /\ client' # client) => ~is_connected']_vars

\* a client whose first connection attempt has not completed reports false
C23_FalseWhileConnecting ==
    /\ reqs = <<>>
    /\ client = 1
    /\ sock[1] = "connecting"
    /\ ~is_connected

\* C24: the pool holds only entries of requests that have not completed: the
\* entry of a request is gone once a response resolved it and once its
\* deadline fired.
C24_PoolHoldsOnlyPending ==
    \A id \in Ids : pool[id] # 0 => reqs[pool[id]].outcome = Pending

\* the response half of C24: a response removes the entry it names, and the
\* request it resolved has its timer cancelled for good
C24_ResponseRemovesEntry ==
    [][\A msg \in WsMessages : (WsMessage(msg) /\ JSONparse(msg).ok) =>
          /\ pool'[JSONparse(msg).requester] = 0
          /\ \A r \in Requests :
               reqs[r].outcome = Pending /\ reqs'[r].outcome # Pending
                 => reqs'[r].timer = "cleared"]_vars

\* C25: the id drawn for a new request differs from the id of every request
\* still outstanding, so no step replaces the pool entry of a pending request
\* by another request, and every pending request stays reachable under its id.
C25_IdsUniqueAmongOutstanding ==
    /\ [][\A id \in Ids :
            (pool[id] # 0 /\ reqs[pool[id]].outcome = Pending)
               => pool'[id] \in {pool[id], 0}]_vars
    /\ [](\A r \in Requests :
            (reqs[r].outcome = Pending /\ reqs[r].timer = "armed")
               => pool[reqs[r].id] = r)

\* the state of the event channel of the named-pipe client
EventChannelState ==
    IF eventClient = 0 THEN "Disconnected"
    ELSE IF sock[eventClient] = "open" THEN "Connected"
    ELSE "Connecting"

\* the state changes the specification allows a channel in one step
Allowed(s, t) ==
    \/ s = t
    \/ <<s, t>> \in {<<"Disconnected", "Connecting">>, <<"Connecting", "Connected">>,
                     <<"Connecting", "Disconnected">>, <<"Connected", "Disconnected">>}

\* C26: every channel moves only Disconnected -> Connecting -> Connected and
\* Connecting|Connected -> Disconnected, and a channel that is Connecting or
\* Connected is not given a new handle before it became Disconnected.
C26_ChannelStateMachine ==
    [][/\ Allowed(ChannelState, ChannelState')
       /\ Allowed(EventChannelState, EventChannelState')
       /\ NoSecondAttempt]_vars

\* supporting lemma for C26: the single channel of the WebSocket client keeps
\* to the state machine, and each change has the cause the specification names
C26_WsChannelStateMachine ==
    [][/\ Allowed(ChannelState, ChannelState')
       /\ Live(client) => client' \in {client, 0}
       /\ (ChannelState = "Disconnected" /\ ChannelState' = "Connecting") => Tick
       /\ (ChannelState = "Connecting" /\ ChannelState' = "Connected") => WsOpen(client)
       /\ (ChannelState # "Disconnected" /\ ChannelState' = "Disconnected") =>
             \E h \in Handles : OnError(h) \/ OnClose(h)]_vars

\* C27: an 'error' or 'close' event leaves the channel Disconnected with the
\* emitting handle and the channel's handle torn down, and creates no handle;
\* a handle is only ever created by a supervisor tick.
C27_HandlerOnlyDisconnects ==
    [][/\ \A h \in Handles : (OnError(h) \/ OnClose(h)) =>
             /\ ChannelState' = "Disconnected"
             /\ ~Live(h)'
             /\ client # 0 => sock'[client] \notin {"connecting", "open"}
             /\ HandlesUsed' = HandlesUsed
       /\ HandlesUsed' # HandlesUsed => (Tick /\ ChannelState = "Disconnected")]_vars

\* the first connection has raised 'error': the channel is Disconnected, its
\* handle is closing and no second handle exists although reconnect is on
C27_DisconnectedAwaitingTick ==
    /\ reconnect
    /\ client = 0
    /\ sock[1] = "closing"
    /\ HandlesUsed = 1

\* request r is registered and has not completed
Outstanding(r) == r <= Len(reqs) /\ reqs[r].outcome = Pending

\* C28: an 'error' or 'close' event completes no request and leaves every pool
\* entry and every timer as it was; a request pending while the channel is
\* Disconnected still completes, and a pending request completes only as
\* resolved by a response or as timed out.
C28_ConnectionLossCompletesNothing ==
    /\ [][\A h \in Handles : (OnError(h) \/ OnClose(h)) =>
             pool' = pool /\ reqs' = reqs]_vars
    /\ [][\A r \in Requests :
            (reqs[r].outcome = Pending /\ reqs'[r].outcome # Pending) =>
               \/ reqs'[r].outcome = TimedOut /\ WsTimeout(r)
               \/ /\ \E d \in Payloads : reqs'[r].outcome = Resolved(d)
                  /\ \E msg \in WsMessages :
                        WsMessage(msg) /\ JSONparse(msg).requester = reqs[r].id]_vars
    /\ \A r \in 1..MaxReq :
         (Outstanding(r) /\ client = 0) ~> (r <= Len(reqs) /\ reqs[r].outcome # Pending)

\* a request written on the first connection outlived its loss and was
\* resolved by a response delivered on the second connection
C28_ResolvedAfterReconnect ==
    /\ Len(reqs) >= 1
    /\ reqs[1].sent = 1 /\ reqs[1].interval = "none"
    /\ reqs[1].outcome = Resolved("p")
    /\ sock[1] = "closed"
    /\ client = 2 /\ sock[2] = "open"
    /\ Len(log) = 1 /\ log[1].to = 1

\* the buffer cs ends a segment and all its non-empty segments are undecodable
OnlyUndecodable(cs) ==
    /\ Includes(cs, EOT)
    /\ \E i \in 1..Len(Split(cs)) : Split(cs)[i] # <<>>
    /\ \A i \in 1..Len(Split(cs)) : Split(cs)[i] # <<>> => ~JSONparse(Split(cs)[i]).ok

\* C29: undecodable input never aborts the connection: whatever a chunk holds,
\* the handler lets nothing escape and leaves the connection and the listener
\* list as they are, and a chunk of undecodable segments only changes neither
\* the pool nor any request or timer and dispatches nothing.
C29_UndecodableIsHarmless ==
    [][\A n \in 1..Len(wire) : FeedData(n) =>
         /\ client' = client /\ sock' = sock
         /\ event_listeners' = event_listeners
         /\ uncaught' = FALSE
         /\ OnlyUndecodable(collected_string \o SubSeq(wire, 1, n)) =>
              /\ pool' = pool /\ reqs' = reqs
              /\ log' = <<>> /\ calls' = <<>>]_vars

\* a garbage segment has been received and dropped: the connection is open
\* and the request registered before it is still pending in the pool
C29_GarbageReceived ==
    /\ stream[1] \in Malformed
    /\ chunks = <<2>>
    /\ decoded = <<>>
    /\ connected
    /\ reqs[1].outcome = Pending /\ reqs[1].timer = "armed"
    /\ pool[reqs[1].id] = 1

\* supporting lemma for C29: an undecodable WebSocket message changes nothing
C29_WsUndecodableIsHarmless ==
    [][\A msg \in Malformed : WsMessage(msg) =>
         /\ client' = client /\ sock' = sock
         /\ pool' = pool /\ reqs' = reqs
         /\ event_listeners' = event_listeners
         /\ log' = <<>> /\ calls' = <<>> /\ uncaught' = FALSE]_vars

\* supporting lemma for C29: an undecodable segment on the event pipe invokes
\* no listener
C29_EventPipeUndecodableIsHarmless ==
    [][\A n \in 1..Len(eventWire) :
         (WinEventData(n)
            /\ OnlyUndecodable(collected_string_event \o SubSeq(eventWire, 1, n))) =>
              /\ eventClient' = eventClient /\ client' = client /\ sock' = sock
              /\ pool' = pool /\ reqs' = reqs
              /\ event_listeners' = event_listeners
              /\ calls' = <<>> /\ uncaught' = FALSE]_vars

\* C30: the version check of 'connect' is not fatal: when the daemon's version
\* differs from "0.1" the handler prints the mismatch line and the connected
\* line and changes nothing else: the channel keeps its handle and state, and
\* the pool and every request are as before.
C30_VersionMismatchOnlyLogs ==
    [][\A r \in Requests : VersionCheck(r) =>
         /\ client' = client /\ sock' = sock
         /\ ChannelState' = ChannelState
         /\ pool' = pool /\ reqs' = reqs
         /\ uncaught' = FALSE
         /\ console' = console \o
              (IF reqs[r].outcome # Resolved("a")
               THEN <<[req |-> r, line |-> "mismatch"], [req |-> r, line |-> "connected"]>>
               ELSE <<[req |-> r, line |-> "connected"]>>)]_vars

\* a mismatch was printed on a connection that is still Connected while
\* another request is pending in the pool
C30_MismatchLoggedStillConnected ==
    /\ \E i \in 1..Len(console) :
          /\ console[i].line = "mismatch"
          /\ reqs[console[i].req].outcome = Resolved("p")
    /\ connected
    /\ \E r \in Requests : reqs[r].outcome = Pending /\ pool[reqs[r].id] = r

\* C31: in the WebSocket client the retrying of an unsent request ends with
\* its deadline: once the timer of a request queued while disconnected has
\* fired, no retry interval is armed for it and it is not written in any
\* later step, whatever happens to the connection.
C31_RetryBoundedByTimeout ==
    /\ [](\A r \in Requests : reqs[r].timer = "fired" => reqs[r].interval # "armed")
    /\ [][\A r \in Requests :
            /\ (WsTimeout(r) /\ reqs[r].interval = "armed") =>
                  reqs'[r].interval = "cleared" /\ reqs'[r].sent = 0
            /\ reqs[r].timer = "fired" =>
                  reqs'[r].sent = reqs[r].sent /\ reqs'[r].interval = reqs[r].interval]_vars

\* a request queued while disconnected ran into its deadline unsent, and the
\* connection opened afterwards without the request being written
C31_ExpiredThenConnected ==
    \E r \in Requests :
        /\ reqs[r].sent = 0
        /\ reqs[r].outcome = TimedOut
        /\ reqs[r].interval = "cleared"
        /\ connected

\* C32: in the stream clients request() fails with "Client not connected"
\* exactly when there is no handle at the call, and then writes nothing, adds
\* no pool entry and arms no timer; with a handle, open or still connecting,
\* the request is written, entered in the pool and its timer armed.
C32_RejectedIffNoHandle ==
    [][\A id \in Ids : UnixRequest(id) =>
         LET new == reqs'[Len(reqs) + 1] IN
         /\ Len(reqs') = Len(reqs) + 1
         /\ new.outcome = NotConnected <=> client = 0
         /\ client = 0 =>
              /\ new.sent = 0 /\ new.timer = "none"
              /\ pool' = pool
         /\ client # 0 =>
              /\ new.outcome = Pending
              /\ new.sent = 1 /\ new.timer = "armed"
              /\ pool'[id] = Len(reqs) + 1]_vars

\* a request made while the handle was still connecting is pending in the
\* pool with its timer armed, and is_connected() is false
C32_AcceptedWhileConnecting ==
    /\ client # 0 /\ sock[client] = "connecting"
    /\ ~is_connected
    /\ \E r \in Requests :
          /\ reqs[r].outcome = Pending /\ reqs[r].sent = 1 /\ reqs[r].timer = "armed"
          /\ pool[reqs[r].id] = r

\* the i-th chunk delivered so far
ChunkAt(i) ==
    SubSeq(Flatten(stream), Sum(SubSeq(chunks, 1, i - 1)) + 1, Sum(SubSeq(chunks, 1, i)))

\* every chunk that contains a terminator ends with one
AlignedChunks ==
    \A i \in 1..Len(chunks) :
        Includes(ChunkAt(i), EOT) => ChunkAt(i)[Len(ChunkAt(i))] = EOT

\* C33: when every chunk that contains a terminator also ends with one, the
\* well-formed frames delivered so far have been dispatched, each once and in
\* order, however they were split over the chunks, and the buffer is empty
\* after each chunk that contains a terminator.
C33_AlignedChunksDecodeAll ==
    (StreamWellFormed /\ AlignedChunks) =>
        /\ decoded = SubSeq(stream, 1, Count(Delivered, EOT))
        /\ wire = <<>> => decoded = stream
        /\ collected_string = Remainder
        /\ (chunks # <<>> /\ Includes(ChunkAt(Len(chunks)), EOT)) => collected_string = <<>>

\* two frames arrived as one byte and then the other five, and both were
\* dispatched
C33_SplitFrameDecoded ==
    /\ StreamWellFormed /\ Len(stream) = 2
    /\ chunks = <<1, 5>>
    /\ decoded = stream
    /\ collected_string = <<>>

\* C34: the decode buffer belongs to one connection: a connection that has
\* not delivered anything yet (its handle is still connecting) starts on an
\* empty buffer, so nothing of an older connection is put in front of its
\* first frame, and a whole well-formed frame arriving as the first chunk on
\* it is dispatched.
C34_BufferPerConnection ==
    /\ [](client # 0 /\ sock[client] = "connecting" => collected_string = <<>>)
    /\ [][\A h \in Handles, id \in Ids :
            (UnixConnect(h, id) /\ h = client) => collected_string' = <<>>]_vars

\* C35: an 'error' or 'close' event of a handle that a newer handle has
\* superseded leaves the newer handle alone: the channel keeps its handle and
\* the handle its state.
C35_StaleEventsIgnored ==
    [][\A h \in Handles :
         ((OnError(h) \/ OnClose(h)) /\ client # 0 /\ h # client) =>
             /\ client' = client
             /\ sock'[client] = sock[client]]_vars

====
